---- MODULE Spec2Model ----
(***************************************************************************)
(* A model of the Graphics renderer bootstrap (Renderer::run and the       *)
(* selection helpers of src/src/Renderer.cpp, main of src/unnamed/part_000 *)
(* and the earlier createLogicalDevice revisions of src/unnamed/part_002). *)
(***************************************************************************)
EXTENDS Integers, Sequences, FiniteSets, TLC

\* ------------------------------------------------------------------ bounds
MaxDevices == 3
MaxFamilies == 3
MaxFormats == 3
MaxModes == 3
MaxImgCount == 5
MaxPolls == 2
MaxMessages == 1

\* --------------------------------------------------- uint32_t arithmetic
\* A uint32_t is the pair <<high 16 bits, low 16 bits>>: the values of the
\* program exceed the integers of the model checker, the pair keeps the
\* full width and the wrap-around at 2^32.
Half == 2^16

U32Of(n) == <<n \div Half, n % Half>>

U32Zero == <<0, 0>>

\* 0xFFFFFFFF
U32Max == <<Half - 1, Half - 1>>

U32Add(a, b) ==
    LET lo == a[2] + b[2]
        hi == a[1] + b[1] + (lo \div Half)
    IN  <<hi % Half, lo % Half>>

U32Sub(a, b) ==
    LET lo == a[2] - b[2]
        borrow == IF lo < 0 THEN 1 ELSE 0
        hi == a[1] - b[1] - borrow
    IN  <<hi % Half, lo % Half>>

U32Lt(a, b) == a[1] < b[1] \/ (a[1] = b[1] /\ a[2] < b[2])

U32Le(a, b) == a = b \/ U32Lt(a, b)

\* conversion of a signed int to uint32_t (modulo 2^32)
IntToU32(n) == IF n >= 0 THEN U32Of(n) ELSE U32Sub(U32Zero, U32Of(0 - n))

\* ------------------------------------------------------------- constants
VK_MAKE_API_VERSION(variant, major, minor, patch) ==
    variant * 2^29 + major * 2^22 + minor * 2^12 + patch

VK_API_VERSION_1_4 == VK_MAKE_API_VERSION(0, 1, 4, 0)

device_extensions == <<"VK_KHR_swapchain">>

validation_layers == <<"VK_LAYER_KHRONOS_validation">>

NullHandle == 0

\* ------------------------------------------------------ physical devices
\* A physical device as pickPhysicalDevice and createLogicalDevice query it:
\* properties, features, extension names and queue families; a family's
\* present flag is getSurfaceSupportKHR(i, surface).
Family(g, p) == [graphics |-> g, present |-> p]

Device(type, dim, geom, api, fams, exts) ==
    [deviceType |-> type, maxImageDimension2D |-> dim, geometryShader |-> geom,
     apiVersion |-> api, queue_families |-> fams, extensions |-> exts]

SeqRange(s) == {s[i] : i \in 1..Len(s)}

\* std::ranges::none_of over the queue families: no family has the graphics bit
NoGraphicsFamily(fams) == \A i \in 1..Len(fams) : ~fams[i].graphics

\* the loop over device_extensions: TRUE when some required name has no
\* strcmp-equal name among the device's extensions
MissingDeviceExtension(exts) ==
    \E k \in 1..Len(device_extensions) :
        \A e \in exts : e # device_extensions[k]

\* the score of one device, as the loop body computes it in uint32_t
scoreDevice_NoApiCheck(d) ==
    LET s1 == IF d.deviceType = "eDiscreteGpu"
              THEN U32Add(U32Zero, U32Of(1000)) ELSE U32Zero
        s2 == U32Add(s1, d.maxImageDimension2D)
        s3 == IF ~d.geometryShader THEN U32Zero ELSE s2
        s5 == IF NoGraphicsFamily(d.queue_families) THEN U32Zero ELSE s3
    IN  IF MissingDeviceExtension(d.extensions) THEN U32Zero ELSE s5

scoreDevice(d) ==
    LET s1 == IF d.deviceType = "eDiscreteGpu"
              THEN U32Add(U32Zero, U32Of(1000)) ELSE U32Zero
        s2 == U32Add(s1, d.maxImageDimension2D)
        s3 == IF ~d.geometryShader THEN U32Zero ELSE s2
        s4 == IF d.apiVersion < VK_API_VERSION_1_4 THEN U32Zero ELSE s3
        s5 == IF NoGraphicsFamily(d.queue_families) THEN U32Zero ELSE s4
    IN  IF MissingDeviceExtension(d.extensions) THEN U32Zero ELSE s5

\* std::multimap<uint32_t, PhysicalDevice>::insert: the map is the sequence of
\* its entries in iteration order (ascending key); an entry whose key is
\* already present goes to the upper bound of that key's range.
MultimapInsert_LowerBound(m, e) ==
    LET k == Cardinality({j \in 1..Len(m) : U32Lt(m[j].key, e.key)})
    IN  SubSeq(m, 1, k) \o <<e>> \o SubSeq(m, k + 1, Len(m))

MultimapInsert(m, e) ==
    LET k == Cardinality({j \in 1..Len(m) : U32Le(m[j].key, e.key)})
    IN  SubSeq(m, 1, k) \o <<e>> \o SubSeq(m, k + 1, Len(m))

\* the for loop of pickPhysicalDevice from device i on: a device of score 0 is
\* skipped, any other is inserted under its score
RECURSIVE ScoreLoop_KeepZero(_, _, _)
ScoreLoop_KeepZero(devs, i, m) ==
    IF i > Len(devs) THEN m
    ELSE ScoreLoop_KeepZero(devs, i + 1,
             MultimapInsert(m, [key |-> scoreDevice(devs[i]), dev |-> i]))

RECURSIVE ScoreLoop(_, _, _)
ScoreLoop(devs, i, m) ==
    IF i > Len(devs) THEN m
    ELSE LET score == scoreDevice(devs[i])
         IN  IF score = U32Zero
             THEN ScoreLoop(devs, i + 1, m)
             ELSE ScoreLoop(devs, i + 1,
                            MultimapInsert(m, [key |-> score, dev |-> i]))

\* the lines the loop writes when ENABLE_VALIDATION: one for each device, with
\* its score (the two 16-bit halves of the uint32_t)
ScoreLines(devs) ==
    [i \in 1..Len(devs) |->
        "Physical Device: " \o ToString(i) \o "\tScore: "
        \o ToString(scoreDevice(devs[i])[1]) \o ":"
        \o ToString(scoreDevice(devs[i])[2])]

\* pickPhysicalDevice as a function of the enumerated devices: the error it
\* throws ("none" when it returns), the device it selects (its place in the
\* enumeration, NullHandle when none) and the multimap it built
pickPhysicalDevice(devs) ==
    IF Len(devs) = 0
    THEN [err |-> "No physical devices available",
          physical_device |-> NullHandle, scored_devices |-> <<>>]
    ELSE LET m == ScoreLoop(devs, 1, <<>>)
         IN  IF Len(m) = 0
             THEN [err |-> "No suitable physical device available",
                   physical_device |-> NullHandle, scored_devices |-> m]
             ELSE [err |-> "none",
                   physical_device |-> m[Len(m)].dev, scored_devices |-> m]

\* ------------------------------------------------- queue family selection
\* the search loop of createLogicalDevice (latest revision): the first family,
\* from index i on, with the graphics bit and surface support; max_idx if none.
\* Family indices count from 0 as in the source: family i is fams[i + 1].
FindCombined_Last(fams, i) ==
    LET both == {k \in i..(Len(fams) - 1) :
                    fams[k + 1].graphics /\ fams[k + 1].present}
    IN  IF both = {} THEN Len(fams)
        ELSE CHOOSE k \in both : \A j \in both : j <= k

RECURSIVE FindCombined(_, _)
FindCombined(fams, i) ==
    IF i >= Len(fams) THEN Len(fams)
    ELSE IF fams[i + 1].graphics /\ fams[i + 1].present THEN i
    ELSE FindCombined(fams, i + 1)

\* createLogicalDevice (latest revision) as a function of the selected device's
\* families and of whether the driver refuses the device: the error thrown, the
\* family named in the one DeviceQueueCreateInfo, and the queue handle fetched
createLogicalDevice(fams, refused) ==
    LET max_idx == Len(fams)
        queue_idx == FindCombined(fams, 0)
    IN  IF queue_idx = max_idx
        THEN [err |-> "No graphics queue available with presentation available",
              queue_info |-> <<>>, logical_device |-> FALSE, queue |-> <<>>]
        ELSE IF refused
        THEN [err |-> "vk::SystemError",
              queue_info |-> <<[queueFamilyIndex |-> queue_idx, queueCount |-> 1]>>,
              logical_device |-> FALSE, queue |-> <<>>]
        ELSE [err |-> "none",
              queue_info |-> <<[queueFamilyIndex |-> queue_idx, queueCount |-> 1]>>,
              logical_device |-> TRUE,
              queue |-> <<[family |-> queue_idx, slot |-> 0]>>]

\* the search loop of the revision with separate graphics and present indices
RECURSIVE FallbackLoop(_, _, _, _)
FallbackLoop(fams, i, gfx_idx, pres_idx) ==
    LET max_idx == Len(fams) IN
    IF i >= max_idx THEN [gfx_idx |-> gfx_idx, pres_idx |-> pres_idx]
    ELSE LET valid_gfx == fams[i + 1].graphics
             valid_pres == fams[i + 1].present
         IN  IF valid_gfx /\ valid_pres
             THEN [gfx_idx |-> i, pres_idx |-> i]
             ELSE IF valid_gfx /\ gfx_idx = max_idx
             THEN FallbackLoop(fams, i + 1, i, pres_idx)
             ELSE IF valid_pres /\ pres_idx = max_idx
             THEN FallbackLoop(fams, i + 1, gfx_idx, i)
             ELSE FallbackLoop(fams, i + 1, gfx_idx, pres_idx)

\* createLogicalDevice of that revision: one queue is requested, of family
\* gfx_idx; then a queue is fetched from gfx_idx and one from pres_idx
createLogicalDeviceFallback(fams, refused) ==
    LET max_idx == Len(fams)
        found == FallbackLoop(fams, 0, max_idx, max_idx)
        info == <<[queueFamilyIndex |-> found.gfx_idx, queueCount |-> 1]>>
    IN  IF found.gfx_idx = max_idx
        THEN [err |-> "No graphics queue available", queue_info |-> <<>>,
              logical_device |-> FALSE, gfx_queue |-> <<>>, pres_queue |-> <<>>]
        ELSE IF found.pres_idx = max_idx
        THEN [err |-> "No presentation queue available", queue_info |-> <<>>,
              logical_device |-> FALSE, gfx_queue |-> <<>>, pres_queue |-> <<>>]
        ELSE IF refused
        THEN [err |-> "vk::SystemError", queue_info |-> info,
              logical_device |-> FALSE, gfx_queue |-> <<>>, pres_queue |-> <<>>]
        ELSE [err |-> "none", queue_info |-> info, logical_device |-> TRUE,
              gfx_queue |-> <<[family |-> found.gfx_idx, slot |-> 0]>>,
              pres_queue |-> <<[family |-> found.pres_idx, slot |-> 0]>>]

\* ------------------------------------------------- swap chain negotiation
SurfaceFormat(f, c) == [format |-> f, colorSpace |-> c]

Extent2D(w, h) == [width |-> w, height |-> h]

\* minSwapImgs
minSwapImgs_NoMaxClamp(capabilities) ==
    LET min_cap == capabilities.minImageCount
    IN  IF U32Lt(U32Of(3), min_cap) THEN min_cap ELSE U32Of(3)

minSwapImgs(capabilities) ==
    LET max_cap == capabilities.maxImageCount
        min_cap == capabilities.minImageCount
        min_img == IF U32Lt(U32Of(3), min_cap) THEN min_cap ELSE U32Of(3)
    IN  IF U32Lt(U32Zero, max_cap) /\ U32Lt(max_cap, min_img)
        THEN max_cap ELSE min_img

\* the predicate of the find_if of pickSwapSurfaceFormat
PreferredFormat_FormatOnly(fmt) == fmt.format = "eB8G8R8A8Srgb"

PreferredFormat(fmt) ==
    fmt.format = "eB8G8R8A8Srgb" /\ fmt.colorSpace = "eSrgbNonlinear"

\* std::ranges::find_if from place i on: the place of the first preferred
\* entry, Len(available) + 1 for end()
RECURSIVE FindFormat(_, _)
FindFormat(available, i) ==
    IF i > Len(available) THEN i
    ELSE IF PreferredFormat(available[i]) THEN i
    ELSE FindFormat(available, i + 1)

\* pickSwapSurfaceFormat on a non-empty list (its assert)
pickSwapSurfaceFormat(available) ==
    LET fmt_iter == FindFormat(available, 1)
    IN  IF fmt_iter # Len(available) + 1 THEN available[fmt_iter]
        ELSE available[1]

\* pickSwapPresentMode past its assert
pickSwapPresentMode(available) ==
    IF \E i \in 1..Len(available) : available[i] = "eMailbox"
    THEN "eMailbox" ELSE "eFifo"

\* std::clamp<uint32_t>(v, lo, hi) for lo <= hi
Clamp_NoUpper(v, lo, hi) == IF U32Lt(v, lo) THEN lo ELSE v

Clamp(v, lo, hi) == IF U32Lt(v, lo) THEN lo ELSE IF U32Lt(hi, v) THEN hi ELSE v

\* pickSwapExtent: fb is the framebuffer size glfwGetFramebufferSize reports
pickSwapExtent(fb, capabilities) ==
    IF capabilities.currentExtent.width # U32Max
    THEN capabilities.currentExtent
    ELSE Extent2D(Clamp(IntToU32(fb.width),
                        capabilities.minImageExtent.width,
                        capabilities.maxImageExtent.width),
                  Clamp(IntToU32(fb.height),
                        capabilities.minImageExtent.height,
                        capabilities.maxImageExtent.height))

\* ------------------------------------------------- instance requirements
\* the first name of required, from place i on, with no strcmp-equal name in
\* supported; <<>> when every required name is supported
FirstMissing_Last(required, supported, i) ==
    LET missing == {k \in i..Len(required) : required[k] \notin supported}
    IN  IF missing = {} THEN <<>>
        ELSE <<required[CHOOSE k \in missing : \A j \in missing : j <= k]>>

RECURSIVE FirstMissing(_, _, _)
FirstMissing(required, supported, i) ==
    IF i > Len(required) THEN <<>>
    ELSE IF \A name \in supported : name # required[i] THEN <<required[i]>>
    ELSE FirstMissing(required, supported, i + 1)

\* ------------------------------------------------------------------ state
VARIABLES
    ENABLE_VALIDATION,  \* the build flag: TRUE unless NDEBUG; assert is live with it
    rev,                \* the revision of createLogicalDevice that is built
    host,               \* what the window system, the loader and the driver answer
    pc,                 \* the call of run()/main() that is next
    err,                \* the message of the exception in flight, "none" if none
    exit_code,          \* how the process ended, "none" while it runs
    glfw,               \* glfwInit succeeded and glfwTerminate has not run
    window,
    instance,
    debug_messenger,
    surface,
    physical_device,
    logical_device,
    queue,
    gfx_queue,
    pres_queue,
    swap_chain,
    swap_images,
    swap_image_views,
    swap_extent,
    swap_format,
    scored_devices,     \* the multimap pickPhysicalDevice built
    queue_info,         \* the DeviceQueueCreateInfo handed to the device
    swap_info,          \* the SwapchainCreateInfoKHR handed to the swap chain
    should_close,       \* the window's close flag
    started,            \* the setup calls made so far, in order
    acquired,           \* the resources acquired so far, in order
    released,           \* the resources released so far, in order
    polls,              \* the glfwPollEvents calls made so far
    cerr                \* the lines written to std::cerr, in order

buildVars == <<ENABLE_VALIDATION, rev, host>>

ctlVars == <<pc, err, exit_code>>

handleVars == <<glfw, window, instance, debug_messenger, surface, physical_device,
                logical_device, queue, gfx_queue, pres_queue, swap_chain,
                swap_images, swap_image_views, swap_extent, swap_format>>

localVars == <<scored_devices, queue_info, swap_info>>

histVars == <<should_close, started, acquired, released, polls>>

ioVars == <<cerr>>

vars == <<buildVars, ctlVars, handleVars, localVars, histVars, ioVars>>

\* the calls of run() and initVulkan(), in the order they are written
SetupOrder ==
    <<"initWindow", "createInstance", "setupDebugMessenger", "createSurface",
      "pickPhysicalDevice", "createLogicalDevice", "createSwapChain",
      "createImageView">>

StepNo(step) == CHOOSE i \in 1..Len(SetupOrder) : SetupOrder[i] = step

\* an exception leaves run(): the catch of main is next
Throw(msg) == pc' = "catch" /\ err' = msg /\ exit_code' = exit_code

\* a call returns: the next one is next
Goto(step) == pc' = step /\ err' = err /\ exit_code' = exit_code

\* a failed assert: abort(), no unwinding, no handler
Abort == pc' = "aborted" /\ err' = err /\ exit_code' = "SIGABRT"

\* ----------------------------------------------------------------- actions
InitWindow ==
    /\ pc = "initWindow"
    /\ started' = Append(started, "initWindow")
    /\ IF ~host.glfwInit
       THEN /\ Throw("GLFW failed to initialize")
            /\ UNCHANGED <<glfw, window, acquired, cerr>>
       ELSE /\ glfw' = TRUE
            /\ cerr' = IF ENABLE_VALIDATION
                       THEN Append(cerr, "GLFW platform: ") ELSE cerr
            /\ IF ~host.createWindow
               THEN /\ Throw("GLFW failed to create window")
                    /\ UNCHANGED <<window, acquired>>
               ELSE /\ window' = 1
                    /\ acquired' = Append(acquired, "window")
                    /\ Goto("createInstance")
    /\ UNCHANGED <<buildVars, instance, debug_messenger, surface, physical_device,
                   logical_device, queue, gfx_queue, pres_queue, swap_chain,
                   swap_images, swap_image_views, swap_extent, swap_format,
                   localVars, should_close, released, polls>>

CreateInstance ==
    /\ pc = "createInstance"
    /\ started' = Append(started, "createInstance")
    /\ LET required_layers == IF ENABLE_VALIDATION THEN validation_layers ELSE <<>>
           required_extensions ==
               host.glfwExtensions \o
               (IF ENABLE_VALIDATION THEN <<"VK_EXT_debug_utils">> ELSE <<>>)
           no_layer == FirstMissing(required_layers, host.layers, 1)
           no_ext == FirstMissing(required_extensions, host.extensions, 1)
           listing == IF ~ENABLE_VALIDATION THEN <<>>
                      ELSE IF no_layer # <<>> THEN <<"Supported layers:">>
                      ELSE <<"Supported layers:", "Available Extensions:">>
       IN  /\ cerr' = cerr \o listing
           /\ IF no_layer # <<>>
              THEN /\ Throw("Required layer not supported: " \o no_layer[1])
                   /\ UNCHANGED <<instance, acquired>>
              ELSE IF no_ext # <<>>
              THEN /\ Throw("Required extension not supported: " \o no_ext[1])
                   /\ UNCHANGED <<instance, acquired>>
              ELSE IF host.driverFail = "instance"
              THEN /\ Throw("vk::SystemError")
                   /\ UNCHANGED <<instance, acquired>>
              ELSE /\ instance' = 1
                   /\ acquired' = Append(acquired, "instance")
                   /\ Goto("setupDebugMessenger")
    /\ UNCHANGED <<buildVars, glfw, window, debug_messenger, surface,
                   physical_device, logical_device, queue, gfx_queue, pres_queue,
                   swap_chain, swap_images, swap_image_views, swap_extent,
                   swap_format, localVars, should_close, released, polls>>

SetupDebugMessenger ==
    /\ pc = "setupDebugMessenger"
    /\ started' = Append(started, "setupDebugMessenger")
    /\ IF ~ENABLE_VALIDATION
       THEN /\ Goto("createSurface")
            /\ UNCHANGED <<debug_messenger, acquired>>
       ELSE IF host.driverFail = "debug_messenger"
       THEN /\ Throw("vk::SystemError")
            /\ UNCHANGED <<debug_messenger, acquired>>
       ELSE /\ debug_messenger' = 1
            /\ acquired' = Append(acquired, "debug_messenger")
            /\ Goto("createSurface")
    /\ UNCHANGED <<buildVars, glfw, window, instance, surface, physical_device,
                   logical_device, queue, gfx_queue, pres_queue, swap_chain,
                   swap_images, swap_image_views, swap_extent, swap_format,
                   localVars, should_close, released, polls,
                   cerr>>

CreateSurface_Unchecked ==
    /\ pc = "createSurface"
    /\ started' = Append(started, "createSurface")
    /\ IF host.surfaceResult # 0
       THEN /\ Goto("pickPhysicalDevice")
            /\ UNCHANGED <<surface, acquired>>
       ELSE /\ surface' = 1
            /\ acquired' = Append(acquired, "surface")
            /\ Goto("pickPhysicalDevice")
    /\ UNCHANGED <<buildVars, glfw, window, instance, debug_messenger,
                   physical_device, logical_device, queue, gfx_queue, pres_queue,
                   swap_chain, swap_images, swap_image_views, swap_extent,
                   swap_format, localVars, should_close, released, polls,
                   cerr>>

CreateSurface ==
    /\ pc = "createSurface"
    /\ started' = Append(started, "createSurface")
    /\ IF host.surfaceResult # 0
       THEN /\ Throw("Failed to create surface with error code: "
                     \o ToString(host.surfaceResult))
            /\ UNCHANGED <<surface, acquired>>
       ELSE /\ surface' = 1
            /\ acquired' = Append(acquired, "surface")
            /\ Goto("pickPhysicalDevice")
    /\ UNCHANGED <<buildVars, glfw, window, instance, debug_messenger,
                   physical_device, logical_device, queue, gfx_queue, pres_queue,
                   swap_chain, swap_images, swap_image_views, swap_extent,
                   swap_format, localVars, should_close, released, polls,
                   cerr>>

PickPhysicalDevice ==
    /\ pc = "pickPhysicalDevice"
    /\ started' = Append(started, "pickPhysicalDevice")
    /\ LET r == pickPhysicalDevice(host.devices)
       IN  /\ scored_devices' = r.scored_devices
           /\ physical_device' = r.physical_device
           /\ cerr' = IF ENABLE_VALIDATION
                      THEN cerr \o ScoreLines(host.devices) ELSE cerr
           /\ IF r.err # "none" THEN Throw(r.err) ELSE Goto("createLogicalDevice")
    /\ UNCHANGED <<buildVars, glfw, window, instance, debug_messenger, surface,
                   logical_device, queue, gfx_queue, pres_queue, swap_chain,
                   swap_images, swap_image_views, swap_extent, swap_format,
                   queue_info, swap_info, should_close, acquired, released, polls>>

\* the families of the selected device
SelectedFamilies == host.devices[physical_device].queue_families

CreateLogicalDevice ==
    /\ pc = "createLogicalDevice"
    /\ rev = "latest"
    /\ started' = Append(started, "createLogicalDevice")
    /\ LET r == createLogicalDevice(SelectedFamilies,
                                    host.driverFail = "logical_device")
       IN  /\ queue_info' = r.queue_info
           /\ queue' = r.queue
           /\ IF r.logical_device
              THEN /\ logical_device' = 1
                   /\ acquired' = Append(acquired, "logical_device")
              ELSE UNCHANGED <<logical_device, acquired>>
           /\ IF r.err # "none" THEN Throw(r.err) ELSE Goto("createSwapChain")
    /\ UNCHANGED <<buildVars, glfw, window, instance, debug_messenger, surface,
                   physical_device, gfx_queue, pres_queue, swap_chain,
                   swap_images, swap_image_views, swap_extent, swap_format,
                   scored_devices, swap_info, should_close, released, polls,
                   cerr>>

\* the revision with the fallback: its initVulkan ends with createLogicalDevice
CreateLogicalDeviceFallback ==
    /\ pc = "createLogicalDevice"
    /\ rev = "fallback"
    /\ started' = Append(started, "createLogicalDevice")
    /\ LET r == createLogicalDeviceFallback(SelectedFamilies,
                                            host.driverFail = "logical_device")
           \* the present queue is asked of a family no queue was created of
           unrequested ==
               /\ r.err = "none"
               /\ r.pres_queue[1].family # r.queue_info[1].queueFamilyIndex
       IN  /\ queue_info' = r.queue_info
           /\ gfx_queue' = r.gfx_queue
           /\ IF r.logical_device
              THEN /\ logical_device' = 1
                   /\ acquired' = Append(acquired, "logical_device")
              ELSE UNCHANGED <<logical_device, acquired>>
           /\ \/ /\ pres_queue' = r.pres_queue
                 /\ IF r.err # "none" THEN Throw(r.err) ELSE Goto("mainLoop")
              \/ \* vkGetDeviceQueue of such a family is undefined: the handle
                 \* above, whatever it refers to, or a fault
                 /\ unrequested
                 /\ pres_queue' = <<>>
                 /\ pc' = "aborted" /\ err' = err /\ exit_code' = "SIGSEGV"
    /\ UNCHANGED <<buildVars, glfw, window, instance, debug_messenger, surface,
                   physical_device, queue, swap_chain, swap_images,
                   swap_image_views, swap_extent, swap_format, scored_devices,
                   swap_info, should_close, released, polls,
                   cerr>>

\* the surface formats a read of available[0] of an empty vector may yield
AnyFormat ==
    {SurfaceFormat(f, c) : f \in {"eB8G8R8A8Srgb", "eB8G8R8A8Unorm", "eR8G8B8A8Srgb"},
                           c \in {"eSrgbNonlinear", "eExtendedSrgbLinearEXT"}}

HasFifo(available) == \E i \in 1..Len(available) : available[i] = "eFifo"

\* createSwapChain from the selection of the present mode on: the create info,
\* the swap chain and its images
SwapChainTail(extent, format) ==
    IF ENABLE_VALIDATION /\ ~HasFifo(host.presentModes)
    THEN /\ Abort
         /\ UNCHANGED <<swap_info, swap_chain, swap_images, acquired>>
    ELSE /\ swap_info' = <<[minImageCount |-> minSwapImgs(host.caps),
                            imageFormat |-> format.format,
                            imageColorSpace |-> format.colorSpace,
                            imageExtent |-> extent,
                            presentMode |-> pickSwapPresentMode(host.presentModes)]>>
         /\ IF host.driverFail = "swap_chain"
            THEN /\ Throw("vk::SystemError")
                 /\ UNCHANGED <<swap_chain, swap_images, acquired>>
            ELSE /\ swap_chain' = 1
                 /\ swap_images' = [i \in 1..host.numImages |-> i]
                 /\ acquired' = Append(acquired, "swap_chain")
                 /\ Goto("createImageView")

CreateSwapChain ==
    /\ pc = "createSwapChain"
    /\ started' = Append(started, "createSwapChain")
    /\ LET extent == pickSwapExtent(host.fb, host.caps)
       IN  /\ swap_extent' = <<extent>>
           /\ IF host.formats # <<>>
              THEN /\ swap_format' = <<pickSwapSurfaceFormat(host.formats)>>
                   /\ SwapChainTail(extent, pickSwapSurfaceFormat(host.formats))
              ELSE IF ENABLE_VALIDATION
              THEN \* assert(!available.empty())
                   /\ Abort
                   /\ UNCHANGED <<swap_format, swap_info, swap_chain,
                                  swap_images, acquired>>
              ELSE \* available[0] of an empty vector: any value, or a fault
                   \/ \E f \in AnyFormat :
                          /\ swap_format' = <<f>>
                          /\ SwapChainTail(extent, f)
                   \/ /\ pc' = "aborted" /\ err' = err /\ exit_code' = "SIGSEGV"
                      /\ UNCHANGED <<swap_format, swap_info, swap_chain,
                                     swap_images, acquired>>
    /\ UNCHANGED <<buildVars, glfw, window, instance, debug_messenger, surface,
                   physical_device, logical_device, queue, gfx_queue, pres_queue,
                   swap_image_views, scored_devices, queue_info, should_close,
                   released, polls,
                   cerr>>

\* the Vulkan calls of the steps after setupDebugMessenger
VulkanSteps ==
    {"createSurface", "pickPhysicalDevice", "createLogicalDevice",
     "createSwapChain", "createImageView"}

ValidationLine == "validation layer: type  msg: "

\* debugCB: the validation layer reports on a Vulkan call of the step at hand;
\* errors and warnings are written, verbose messages are dropped. At most
\* MaxMessages lines are followed.
DebugCB ==
    /\ debug_messenger # NullHandle
    /\ pc \in VulkanSteps
    /\ Len(SelectSeq(cerr, LAMBDA l : l = ValidationLine)) < MaxMessages
    /\ \E severity \in {"eVerbose", "eWarning", "eError"} :
          cerr' = IF severity \in {"eError", "eWarning"}
                  THEN Append(cerr, ValidationLine) ELSE cerr
    /\ UNCHANGED <<buildVars, ctlVars, handleVars, localVars, histVars>>

\* one view per image, in order; a refusal by the driver hits the last image
CreateImageView ==
    /\ pc = "createImageView"
    /\ started' = Append(started, "createImageView")
    /\ IF ENABLE_VALIDATION /\ swap_image_views # <<>>
       THEN /\ Abort
            /\ UNCHANGED <<swap_image_views, acquired>>
       ELSE LET n == Len(swap_images)
                made == IF host.driverFail = "image_view" THEN n - 1 ELSE n
            IN  /\ swap_image_views' = SubSeq(swap_images, 1, made)
                /\ acquired' = IF made > 0
                               THEN Append(acquired, "swap_image_views")
                               ELSE acquired
                /\ IF made < n THEN Throw("vk::SystemError") ELSE Goto("mainLoop")
    /\ UNCHANGED <<buildVars, glfw, window, instance, debug_messenger, surface,
                   physical_device, logical_device, queue, gfx_queue, pres_queue,
                   swap_chain, swap_images, swap_extent, swap_format, localVars,
                   should_close, released, polls,
                   cerr>>

\* one turn of the loop of mainLoop: the flag was clear, events are polled; a
\* close request of the user, if one came, sets the flag. polls stops counting
\* at MaxPolls.
MainLoopPoll ==
    /\ pc = "mainLoop"
    /\ ~should_close
    /\ polls' = IF polls < MaxPolls THEN polls + 1 ELSE polls
    /\ \E closed \in BOOLEAN : should_close' = closed
    /\ UNCHANGED <<buildVars, ctlVars, handleVars, localVars, started, acquired,
                   released, cerr>>

MainLoopExit_AnyFlag ==
    /\ pc = "mainLoop"
    /\ Goto("cleanup")
    /\ UNCHANGED <<buildVars, handleVars, localVars, histVars, cerr>>

\* the loop test finds the flag set: mainLoop returns
MainLoopExit ==
    /\ pc = "mainLoop"
    /\ should_close
    /\ Goto("cleanup")
    /\ UNCHANGED <<buildVars, handleVars, localVars, histVars, cerr>>

\* cleanup(): glfwDestroyWindow, glfwTerminate; the pointer is left as it is
Cleanup ==
    /\ pc = "cleanup"
    /\ released' = Append(released, "window")
    /\ glfw' = FALSE
    /\ Goto("return")
    /\ UNCHANGED <<buildVars, window, instance, debug_messenger, surface,
                   physical_device, logical_device, queue, gfx_queue, pres_queue,
                   swap_chain, swap_images, swap_image_views, swap_extent,
                   swap_format, localVars, should_close, started, acquired, polls,
                   cerr>>

\* the order in which ~Renderer destroys the RAII members: the reverse of
\* their declaration
MemberDestructionOrder ==
    <<"swap_image_views", "swap_chain", "logical_device", "surface",
      "debug_messenger", "instance">>

Live(r) == r \in SeqRange(acquired) /\ r \notin SeqRange(released)

\* ~Renderer at the end of main: every live RAII member is released
DestroyRenderer ==
    /\ released' = released \o SelectSeq(MemberDestructionOrder, Live)
    /\ instance' = NullHandle
    /\ debug_messenger' = NullHandle
    /\ surface' = NullHandle
    /\ physical_device' = NullHandle
    /\ logical_device' = NullHandle
    /\ queue' = <<>>
    /\ gfx_queue' = <<>>
    /\ pres_queue' = <<>>
    /\ swap_chain' = NullHandle
    /\ swap_images' = <<>>
    /\ swap_image_views' = <<>>
    /\ UNCHANGED <<glfw, window, swap_extent, swap_format>>

\* main: run() returned
MainReturn ==
    /\ pc = "return"
    /\ pc' = "exit" /\ err' = err /\ exit_code' = "EXIT_SUCCESS"
    /\ DestroyRenderer
    /\ UNCHANGED <<buildVars, localVars, should_close, started, acquired, polls,
                   cerr>>

MainCatch_ReturnsSuccess ==
    /\ pc = "catch"
    /\ cerr' = Append(cerr, err)
    /\ pc' = "exit" /\ err' = err /\ exit_code' = "EXIT_SUCCESS"
    /\ DestroyRenderer
    /\ UNCHANGED <<buildVars, localVars, should_close, started, acquired, polls>>

\* main: the catch clause prints the message and returns EXIT_FAILURE
MainCatch ==
    /\ pc = "catch"
    /\ cerr' = Append(cerr, err)
    /\ pc' = "exit" /\ err' = err /\ exit_code' = "EXIT_FAILURE"
    /\ DestroyRenderer
    /\ UNCHANGED <<buildVars, localVars, should_close, started, acquired, polls>>

Next ==
    \/ InitWindow
    \/ CreateInstance
    \/ SetupDebugMessenger
    \/ CreateSurface
    \/ PickPhysicalDevice
    \/ CreateLogicalDevice
    \/ CreateLogicalDeviceFallback
    \/ CreateSwapChain
    \/ CreateImageView
    \/ MainLoopPoll
    \/ MainLoopExit
    \/ Cleanup
    \/ MainReturn
    \/ MainCatch
    \/ DebugCB

\* ------------------------------------------------------------ host answers
PreferredSurfaceFormat == SurfaceFormat("eB8G8R8A8Srgb", "eSrgbNonlinear")

GoodFamilies == <<Family(TRUE, TRUE)>>

GoodDevice ==
    Device("eDiscreteGpu", U32Of(4096), TRUE, VK_API_VERSION_1_4, GoodFamilies,
           {"VK_KHR_swapchain"})

BaseCaps ==
    [currentExtent |-> Extent2D(U32Of(1000), U32Of(1000)),
     minImageExtent |-> Extent2D(U32Of(1), U32Of(1)),
     maxImageExtent |-> Extent2D(U32Of(4096), U32Of(4096)),
     minImageCount |-> U32Of(2),
     maxImageCount |-> U32Of(8)]

\* a host on which every step of the setup succeeds
BaseHost ==
    [glfwInit |-> TRUE,
     createWindow |-> TRUE,
     layers |-> {"VK_LAYER_KHRONOS_validation"},
     extensions |-> {"VK_KHR_surface", "VK_KHR_xcb_surface", "VK_EXT_debug_utils"},
     glfwExtensions |-> <<"VK_KHR_surface", "VK_KHR_xcb_surface">>,
     surfaceResult |-> 0,
     devices |-> <<GoodDevice>>,
     caps |-> BaseCaps,
     formats |-> <<PreferredSurfaceFormat>>,
     presentModes |-> <<"eFifo">>,
     fb |-> [width |-> 1000, height |-> 1000],
     numImages |-> 3,
     driverFail |-> "none"]

\* all sequences over S of length at most n
SeqsUpTo(S, n) == UNION {[1..k -> S] : k \in 0..n}

\* the state after the construction of the Renderer: the latest revision on a
\* host of H, or the revision with the fallback on a host of HF
InitOn(H, HF) ==
    /\ ENABLE_VALIDATION \in BOOLEAN
    /\ \/ rev = "latest" /\ host \in H
       \/ rev = "fallback" /\ host \in HF
    /\ pc = "initWindow"
    /\ err = "none"
    /\ exit_code = "none"
    /\ glfw = FALSE
    /\ window = NullHandle
    /\ instance = NullHandle
    /\ debug_messenger = NullHandle
    /\ surface = NullHandle
    /\ physical_device = NullHandle
    /\ logical_device = NullHandle
    /\ queue = <<>>
    /\ gfx_queue = <<>>
    /\ pres_queue = <<>>
    /\ swap_chain = NullHandle
    /\ swap_images = <<>>
    /\ swap_image_views = <<>>
    /\ swap_extent = <<>>
    /\ swap_format = <<>>
    /\ scored_devices = <<>>
    /\ queue_info = <<>>
    /\ swap_info = <<>>
    /\ should_close = FALSE
    /\ started = <<>>
    /\ acquired = <<>>
    /\ released = <<>>
    /\ polls = 0
    /\ cerr = <<>>

\* ---- hosts that differ in the enumerated physical devices
DeviceTypes == {"eDiscreteGpu", "eIntegratedGpu"}

Dimensions == {U32Zero, U32Of(4096), U32Sub(U32Zero, U32Of(1000)), U32Max}

ApiVersions == {VK_MAKE_API_VERSION(0, 1, 3, 0), VK_API_VERSION_1_4}

FamilyLists ==
    {<<>>, <<Family(FALSE, TRUE)>>, <<Family(TRUE, FALSE)>>, GoodFamilies}

ExtensionSets == {{}, {"VK_KHR_swapchain"}, {"VK_KHR_SWAPCHAIN", "VK_KHR_maintenance1"}}

\* every combination of type, dimension and requirement
AllCandidates ==
    {Device(t, dim, g, api, fams, exts) :
        t \in DeviceTypes, dim \in Dimensions, g \in BOOLEAN,
        api \in ApiVersions, fams \in FamilyLists, exts \in ExtensionSets}

\* the devices of the longer enumerations: equal and unequal scores, devices
\* that miss a requirement, a score that wraps to 0, a device that cannot present
ListCandidates ==
    {GoodDevice,
     Device("eIntegratedGpu", U32Of(5096), TRUE, VK_API_VERSION_1_4, GoodFamilies,
            {"VK_KHR_swapchain"}),
     Device("eIntegratedGpu", U32Of(4096), TRUE, VK_API_VERSION_1_4, GoodFamilies,
            {"VK_KHR_swapchain"}),
     Device("eDiscreteGpu", U32Of(16384), FALSE, VK_API_VERSION_1_4, GoodFamilies,
            {"VK_KHR_swapchain"}),
     Device("eDiscreteGpu", U32Of(16384), TRUE, VK_API_VERSION_1_4, GoodFamilies,
            {"VK_KHR_swapchain"}),
     Device("eDiscreteGpu", U32Sub(U32Zero, U32Of(1000)), TRUE, VK_API_VERSION_1_4,
            GoodFamilies, {"VK_KHR_swapchain"}),
     Device("eDiscreteGpu", U32Of(8192), TRUE, VK_API_VERSION_1_4,
            <<Family(TRUE, FALSE)>>, {"VK_KHR_swapchain"}),
     Device("eIntegratedGpu", U32Of(4096), TRUE, VK_MAKE_API_VERSION(0, 1, 3, 0),
            GoodFamilies, {"VK_KHR_swapchain"})}

DeviceHosts ==
    {[BaseHost EXCEPT !.devices = ds] :
        ds \in {<<c>> : c \in AllCandidates} \cup SeqsUpTo(ListCandidates, MaxDevices)}

InitDevice == InitOn(DeviceHosts, DeviceHosts)

SpecDevice == InitDevice /\ [][Next]_vars

\* ---- hosts that differ in the queue families of the one device
FamilyFlags == {Family(g, p) : g \in BOOLEAN, p \in BOOLEAN}

QueueHosts ==
    {[BaseHost EXCEPT
        !.devices = <<Device("eDiscreteGpu", U32Of(4096), TRUE, VK_API_VERSION_1_4,
                             fams, {"VK_KHR_swapchain"})>>,
        !.driverFail = fail] :
        fams \in SeqsUpTo(FamilyFlags, MaxFamilies),
        fail \in {"none", "logical_device"}}

InitQueue == InitOn(QueueHosts, QueueHosts)

SpecQueue == InitQueue /\ [][Next]_vars

\* ---- hosts that differ in what the surface reports
PresentModes == {"eImmediate", "eMailbox", "eFifo", "eFifoRelaxed"}

ImageCounts == {U32Of(k) : k \in 0..MaxImgCount} \cup {U32Max}

MinMaxPairs == {<<1, 500>>, <<1, 1000>>, <<500, 500>>, <<500, 1000>>}

CurrentExtents ==
    {Extent2D(U32Of(800), U32Of(600)), Extent2D(U32Max, U32Max),
     Extent2D(U32Max, U32Of(600))}

FramebufferSizes == {0, 50, 700, 1200}

SwapHosts ==
    {[BaseHost EXCEPT !.formats = fmts] : fmts \in SeqsUpTo(AnyFormat, MaxFormats)}
    \cup
    {[BaseHost EXCEPT !.presentModes = modes] :
        modes \in SeqsUpTo(PresentModes, MaxModes)}
    \cup
    {[BaseHost EXCEPT !.caps.minImageCount = lo, !.caps.maxImageCount = hi] :
        lo \in ImageCounts, hi \in ImageCounts}
    \cup
    {[BaseHost EXCEPT
        !.caps.currentExtent = cur,
        !.caps.minImageExtent = Extent2D(U32Of(w[1]), U32Of(h[1])),
        !.caps.maxImageExtent = Extent2D(U32Of(w[2]), U32Of(h[2])),
        !.fb = [width |-> fw, height |-> fh]] :
        cur \in CurrentExtents, w \in MinMaxPairs, h \in MinMaxPairs,
        fw \in FramebufferSizes, fh \in FramebufferSizes}
    \cup
    {[BaseHost EXCEPT !.driverFail = "swap_chain"]}

InitSwapChain == InitOn(SwapHosts, {BaseHost})

SpecSwapChain == InitSwapChain /\ [][Next]_vars

\* ---- hosts that differ in the step of the setup that fails
SplitFamilies == <<Family(FALSE, TRUE), Family(TRUE, FALSE)>>

SetupHosts ==
    {[BaseHost EXCEPT
        !.glfwInit = gi, !.createWindow = cw, !.layers = ls, !.extensions = es,
        !.surfaceResult = sr, !.devices = ds, !.driverFail = fail,
        !.numImages = n] :
        gi \in BOOLEAN, cw \in BOOLEAN,
        ls \in {{}, {"VK_LAYER_KHRONOS_validation"}},
        es \in {{"VK_KHR_surface", "VK_KHR_xcb_surface", "VK_EXT_debug_utils"},
                {"VK_KHR_surface", "VK_KHR_xcb_surface"},
                {"VK_KHR_surface", "VK_EXT_debug_utils"}},
        sr \in {0, -3},
        ds \in {<<>>, <<GoodDevice>>,
                <<Device("eDiscreteGpu", U32Of(4096), FALSE, VK_API_VERSION_1_4,
                         GoodFamilies, {"VK_KHR_swapchain"})>>,
                <<Device("eDiscreteGpu", U32Of(4096), TRUE, VK_API_VERSION_1_4,
                         SplitFamilies, {"VK_KHR_swapchain"})>>},
        fail \in {"none", "instance", "debug_messenger", "logical_device",
                  "swap_chain", "image_view"},
        n \in {1, 3}}
    \cup
    {[BaseHost EXCEPT !.formats = <<>>],
     [BaseHost EXCEPT !.presentModes = <<"eImmediate">>],
     [BaseHost EXCEPT !.presentModes = <<>>]}

Init == InitOn(SetupHosts, SetupHosts)

Spec == Init /\ [][Next]_vars

\* the process runs on: main is one thread, and while a step of it can be taken
\* one is taken
SpecLive == Init /\ [][Next]_vars /\ WF_vars(Next)

\* ================================================================== claims
\* pickPhysicalDevice has run and the Renderer still holds what it selected
Picked == Len(started) >= StepNo("pickPhysicalDevice") /\ pc # "exit"

\* a hard requirement of the selection that device d does not meet
MissingRequirement(d) ==
    \/ d.apiVersion < VK_API_VERSION_1_4
    \/ ~d.geometryShader
    \/ ~(\E f \in SeqRange(d.queue_families) : f.graphics)
    \/ ~(SeqRange(device_extensions) \subseteq d.extensions)

\* C1: every enumerated device that misses a hard requirement (API version
\* below 1.4, no geometry shader, no graphics family, a required device
\* extension absent) has score 0, whatever its type and maxImageDimension2D,
\* and pickPhysicalDevice never enters it in the scored set.
C1_MissingRequirementScoresZero ==
    \A i \in 1..Len(host.devices) :
        MissingRequirement(host.devices[i]) =>
            /\ scoreDevice(host.devices[i]) = U32Zero
            /\ \A j \in 1..Len(scored_devices) : scored_devices[j].dev # i

\* C1 witness: pickPhysicalDevice has scored a discrete device of non-zero
\* dimension whose only missing requirement is the API version
C1_Witness ==
    /\ Picked
    /\ \E i \in 1..Len(host.devices) :
          LET d == host.devices[i]
          IN  /\ d.apiVersion < VK_API_VERSION_1_4
              /\ d.geometryShader
              /\ \E f \in SeqRange(d.queue_families) : f.graphics
              /\ SeqRange(device_extensions) \subseteq d.extensions
              /\ d.deviceType = "eDiscreteGpu"
              /\ d.maxImageDimension2D = U32Of(4096)

\* the two errors with which pickPhysicalDevice reports that no device suits
NoSuitableDeviceError(e) ==
    e \in {"No physical devices available", "No suitable physical device available"}

AllScoreZero(devs) == \A i \in 1..Len(devs) : scoreDevice(devs[i]) = U32Zero

\* C2: once pickPhysicalDevice has run: if the enumeration is empty or every
\* device scores 0 it has thrown a no-suitable-device error, nothing later
\* has run and physical_device is unset; otherwise the selected device has a
\* score above 0 that no other device exceeds.
C2_NeverSelectsZeroScore ==
    Picked =>
        IF AllScoreZero(host.devices)
        THEN /\ pc = "catch"
             /\ NoSuitableDeviceError(err)
             /\ physical_device = NullHandle
             /\ started[Len(started)] = "pickPhysicalDevice"
        ELSE /\ physical_device \in 1..Len(host.devices)
             /\ scoreDevice(host.devices[physical_device]) # U32Zero
             /\ \A j \in 1..Len(host.devices) :
                    U32Le(scoreDevice(host.devices[j]),
                          scoreDevice(host.devices[physical_device]))

\* C2 witness: three devices, all of score 0, and the selection has failed
C2_Witness ==
    /\ Picked
    /\ Len(host.devices) = 3
    /\ AllScoreZero(host.devices)
    /\ err = "No suitable physical device available"

\* the places of the devices of maximum non-zero score
MaxScored(devs) ==
    {i \in 1..Len(devs) :
        /\ scoreDevice(devs[i]) # U32Zero
        /\ \A j \in 1..Len(devs) : U32Le(scoreDevice(devs[j]), scoreDevice(devs[i]))}

\* C3 as claimed: among the devices of maximum non-zero score the first of
\* the enumeration is selected.
C3_FirstOfMaxSelected ==
    (Picked /\ MaxScored(host.devices) # {}) =>
        \A i \in MaxScored(host.devices) : physical_device <= i

\* C3 amended: among the devices of maximum non-zero score the last of the
\* enumeration is selected (equal keys keep their insertion order in the
\* multimap, and rbegin() is its last entry).
C3_LastOfMaxSelected ==
    (Picked /\ MaxScored(host.devices) # {}) =>
        /\ physical_device \in MaxScored(host.devices)
        /\ \A i \in MaxScored(host.devices) : physical_device >= i

\* C3 witness: two devices share the maximum score and one was selected
C3_Witness ==
    /\ Picked
    /\ Cardinality(MaxScored(host.devices)) >= 2
    /\ physical_device \in MaxScored(host.devices)

\* ---------------------------------------------------------------- C4
Min(S) == CHOOSE x \in S : \A y \in S : x <= y

GraphicsFamilies(fams) == {i \in 0..(Len(fams) - 1) : fams[i + 1].graphics}

PresentFamilies(fams) == {i \in 0..(Len(fams) - 1) : fams[i + 1].present}

CombinedFamilies(fams) == GraphicsFamilies(fams) \cap PresentFamilies(fams)

\* createLogicalDevice has run and the Renderer still holds its queues
LogicalDeviceRan == Len(started) >= StepNo("createLogicalDevice") /\ pc # "exit"

QueuesFetched ==
    IF rev = "latest" THEN queue # <<>> ELSE (gfx_queue # <<>> /\ pres_queue # <<>>)

GraphicsIndex == IF rev = "latest" THEN queue[1].family ELSE gfx_queue[1].family

PresentIndex == IF rev = "latest" THEN queue[1].family ELSE pres_queue[1].family

QueueSelectionErrors ==
    {"No graphics queue available", "No presentation queue available",
     "No graphics queue available with presentation available"}

\* the errors that report a missing graphics family, and a missing present
\* family (the latest revision has one message for both)
NoGraphicsError(e) ==
    e \in {"No graphics queue available",
           "No graphics queue available with presentation available"}

NoPresentError(e) ==
    e \in {"No presentation queue available",
           "No graphics queue available with presentation available"}

\* the queue family selection as the claim states it, for the families fams
QueueSelectionAsClaimed(fams) ==
    LET G == GraphicsFamilies(fams)
        P == PresentFamilies(fams)
        B == CombinedFamilies(fams)
    IN  /\ G = {} => NoGraphicsError(err)
        /\ (G # {} /\ P = {}) => NoPresentError(err)
        /\ (G # {} /\ P # {}) =>
              /\ err \notin QueueSelectionErrors
              /\ (host.driverFail # "logical_device" /\ pc # "aborted") => QueuesFetched
              /\ QueuesFetched =>
                    /\ GraphicsIndex = IF B # {} THEN Min(B) ELSE Min(G)
                    /\ PresentIndex = IF B # {} THEN Min(B) ELSE Min(P)

\* C4: once createLogicalDevice has run on the selected device's families: if
\* a family supports graphics and present, both indices are the lowest such
\* family; if none does, the graphics index is the first graphics family and
\* the present index the first present family; the selection fails only when
\* no family has graphics or none has present, with an error of its own for
\* each role.
C4_QueueFamilySelection ==
    LogicalDeviceRan => QueueSelectionAsClaimed(SelectedFamilies)

\* the same statement of the revision with the fallback alone, which meets it
C4_HoldsOfFallbackRevision ==
    (LogicalDeviceRan /\ rev = "fallback") => QueueSelectionAsClaimed(SelectedFamilies)

\* ---------------------------------------------------------------- C5
\* createSwapChain has run
SwapChainRan == Len(started) >= StepNo("createSwapChain")

\* C5: for a non-empty list of surface formats the format chosen is the first
\* entry that has both the format B8G8R8A8 sRGB and the colour space sRGB
\* non-linear, and the first entry of the list when no entry has both (an
\* entry with one of the two is no match).
C5_SurfaceFormatChoice ==
    (SwapChainRan /\ host.formats # <<>>) =>
        LET matches == {i \in 1..Len(host.formats) :
                           /\ host.formats[i].format = "eB8G8R8A8Srgb"
                           /\ host.formats[i].colorSpace = "eSrgbNonlinear"}
        IN  swap_format = <<IF matches # {} THEN host.formats[Min(matches)]
                            ELSE host.formats[1]>>

\* C5 witness: the preferred entry stands last, behind an entry with only the
\* format and one with only the colour space, and it was chosen
C5_Witness ==
    /\ SwapChainRan
    /\ host.formats = <<SurfaceFormat("eB8G8R8A8Srgb", "eExtendedSrgbLinearEXT"),
                        SurfaceFormat("eB8G8R8A8Unorm", "eSrgbNonlinear"),
                        PreferredSurfaceFormat>>
    /\ swap_format = <<PreferredSurfaceFormat>>

\* ---------------------------------------------------------------- C6
\* C6: once createSwapChain has run on a non-empty format list: the present
\* mode handed to the swap chain is mailbox when the host lists mailbox,
\* otherwise fifo when the host lists fifo; when the mode to choose is fifo and
\* the host does not list it, no mode is handed on and the setup has failed
\* with an error (the mode handed on is always one the host listed).
C6_PresentModeListedOrFatal ==
    (SwapChainRan /\ host.formats # <<>>) =>
        IF "eMailbox" \in SeqRange(host.presentModes)
        THEN swap_info # <<>> /\ swap_info[1].presentMode = "eMailbox"
        ELSE IF "eFifo" \in SeqRange(host.presentModes)
        THEN swap_info # <<>> /\ swap_info[1].presentMode = "eFifo"
        ELSE swap_info = <<>> /\ err # "none"

\* ---------------------------------------------------------------- C7
\* the value of a uint32_t below 2^31
Val(u) == u[1] * Half + u[2]

MathClamp(v, lo, hi) == IF v < lo THEN lo ELSE IF v > hi THEN hi ELSE v

\* C7: the extent chosen is the host's current extent unless that extent's
\* width is 0xFFFFFFFF; then it is the framebuffer size, each component
\* clamped between the minimum and the maximum image extent.
C7_SwapExtentChoice ==
    SwapChainRan =>
        LET caps == host.caps IN
        swap_extent =
            <<IF caps.currentExtent.width = U32Max
              THEN Extent2D(
                       U32Of(MathClamp(host.fb.width, Val(caps.minImageExtent.width),
                                       Val(caps.maxImageExtent.width))),
                       U32Of(MathClamp(host.fb.height, Val(caps.minImageExtent.height),
                                       Val(caps.maxImageExtent.height))))
              ELSE caps.currentExtent>>

\* C7 witness: framebuffer (1200, 50), extents from (500, 500) to (1000, 1000),
\* no current extent: (1000, 500) was chosen
C7_Witness ==
    /\ SwapChainRan
    /\ host.caps.currentExtent = Extent2D(U32Max, U32Max)
    /\ host.fb = [width |-> 1200, height |-> 50]
    /\ host.caps.minImageExtent = Extent2D(U32Of(500), U32Of(500))
    /\ host.caps.maxImageExtent = Extent2D(U32Of(1000), U32Of(1000))
    /\ swap_extent = <<Extent2D(U32Of(1000), U32Of(500))>>

\* ---------------------------------------------------------------- C8
\* C8: the image count asked of the swap chain is max(3, minImageCount) when
\* maxImageCount is 0 or at least that, and maxImageCount when it is positive
\* and below; min 2, max 2 gives 2 and min 1, max 0 gives 3; for
\* 0 < minImageCount <= maxImageCount it lies between the two.
C8_MinImageCount ==
    (SwapChainRan /\ swap_info # <<>>) =>
        LET lo == host.caps.minImageCount
            hi == host.caps.maxImageCount
            floor3 == IF U32Le(lo, U32Of(3)) THEN U32Of(3) ELSE lo
            r == swap_info[1].minImageCount
        IN  /\ (hi = U32Zero \/ U32Le(floor3, hi)) => r = floor3
            /\ (hi # U32Zero /\ ~U32Le(floor3, hi)) => r = hi
            /\ (lo = U32Of(2) /\ hi = U32Of(2)) => r = U32Of(2)
            /\ (lo = U32Of(1) /\ hi = U32Zero) => r = U32Of(3)
            /\ (lo # U32Zero /\ U32Le(lo, hi)) => (U32Le(lo, r) /\ U32Le(r, hi))

\* C8 witness: min 2, max 2 and the swap chain was asked for 2 images
C8_Witness ==
    /\ SwapChainRan
    /\ host.caps.minImageCount = U32Of(2)
    /\ host.caps.maxImageCount = U32Of(2)
    /\ swap_info # <<>>
    /\ swap_info[1].minImageCount = U32Of(2)

\* ---------------------------------------------------------------- C9
\* the setup has failed: an exception left run(), or an assert aborted
Failed == err # "none" \/ pc = "aborted"

\* what a setup step leaves behind when it succeeds
Succeeded(step) ==
    CASE step = "initWindow" -> "window" \in SeqRange(acquired)
      [] step = "createInstance" -> "instance" \in SeqRange(acquired)
      [] step = "setupDebugMessenger" ->
             (ENABLE_VALIDATION <=> "debug_messenger" \in SeqRange(acquired))
      [] step = "createSurface" -> "surface" \in SeqRange(acquired)
      [] step = "pickPhysicalDevice" -> scored_devices # <<>>
      [] step = "createLogicalDevice" -> "logical_device" \in SeqRange(acquired)
      [] step = "createSwapChain" -> "swap_chain" \in SeqRange(acquired)
      [] step = "createImageView" ->
             /\ "swap_image_views" \in SeqRange(acquired)
             /\ host.driverFail # "image_view"

\* the last setup step of the revision that is built
LastStep == IF rev = "latest" THEN "createImageView" ELSE "createLogicalDevice"

\* the setup calls made so far are the first calls of the written order, each
\* once; every call but the last made has succeeded; the main loop has turned
\* only after the whole setup succeeded
C9_InOrder ==
    /\ started = SubSeq(SetupOrder, 1, Len(started))
    /\ \A i \in 1..(Len(started) - 1) : Succeeded(started[i])
    /\ (polls > 0 \/ pc \in {"mainLoop", "cleanup", "return"}) =>
          /\ ~Failed
          /\ Len(started) = StepNo(LastStep)
          /\ \A i \in 1..Len(started) : Succeeded(started[i])
    /\ Failed => polls = 0

\* after a failure no setup call is made, nothing is acquired, the loop does
\* not turn, and the failure stays
C9_NothingAfterFailure ==
    Failed => (started' = started /\ acquired' = acquired /\ polls' = polls /\ Failed')

\* C9: the setup steps run in the written order (window, instance, debug
\* messenger, surface, physical device, logical device, swap chain, image
\* views), each only after all earlier ones succeeded and none twice; once a
\* step has failed, no later step and no turn of the main loop is executed.
C9_SetupOrderFailFast == []C9_InOrder /\ [][C9_NothingAfterFailure]_vars

\* C9 witness: the surface creation failed after three successful steps, the
\* process has ended, and nothing after createSurface was started
C9_Witness ==
    /\ pc = "exit"
    /\ err = "Failed to create surface with error code: -3"
    /\ started = SubSeq(SetupOrder, 1, StepNo("createSurface"))
    /\ SeqRange(acquired) = {"window", "instance", "debug_messenger"}
    /\ polls = 0

\* ---------------------------------------------------------------- C10
Reverse(s) == [i \in 1..Len(s) |-> s[Len(s) + 1 - i]]

\* C10: when main has returned, on the normal path and after a failure at any
\* setup step, the resources acquired have been released, each once, in the
\* reverse of the order of their acquisition.
C10_ReverseTeardown == pc = "exit" => released = Reverse(acquired)

\* ---------------------------------------------------------------- C11
\* every setup step of the revision that is built has succeeded
SetupSucceeded ==
    /\ Len(started) = StepNo(LastStep)
    /\ \A i \in 1..Len(started) : Succeeded(started[i])

\* an exception is in flight or was caught: control is in the catch clause of
\* main or past it; at the end the message is the last line of the error
\* stream and the status is EXIT_FAILURE; EXIT_SUCCESS comes only after a whole
\* setup and a main loop left on the close flag
C11_StatusMatchesFailure ==
    /\ err # "none" => pc \in {"catch", "exit"}
    /\ (pc = "exit" /\ err # "none") =>
          /\ exit_code = "EXIT_FAILURE"
          /\ cerr # <<>>
          /\ cerr[Len(cerr)] = err
    /\ exit_code = "EXIT_FAILURE" => (err # "none" /\ pc = "exit")
    /\ exit_code = "EXIT_SUCCESS" =>
          /\ err = "none"
          /\ pc = "exit"
          /\ SetupSucceeded
          /\ should_close

\* C11: whenever a setup step throws, the exception reaches the catch clause of
\* main and nothing else, its message is written to the error stream, and the
\* process ends with EXIT_FAILURE (1); EXIT_SUCCESS (0) is returned only when
\* every setup step succeeded and the main loop was left.
C11_ExitStatusOnFailure ==
    /\ []C11_StatusMatchesFailure
    /\ (err # "none") ~> (pc = "exit" /\ exit_code = "EXIT_FAILURE")

\* C11 witness: the queue selection failed, main caught it, wrote its message
\* last and returned EXIT_FAILURE
C11_Witness ==
    /\ pc = "exit"
    /\ err = "No graphics queue available with presentation available"
    /\ exit_code = "EXIT_FAILURE"
    /\ cerr[Len(cerr)] = err
    /\ started = SubSeq(SetupOrder, 1, StepNo("createLogicalDevice"))

\* ---------------------------------------------------------------- C12
\* cleanup() has run as often as the window was released
CleanupRuns == Len(SelectSeq(released, LAMBDA r : r = "window"))

\* cleanup() runs at most once, and only after the loop was left on a set flag
C12_CleanupAfterLoop ==
    /\ CleanupRuns <= 1
    /\ CleanupRuns = 1 => (should_close /\ pc \in {"return", "exit"})
    /\ pc \in {"cleanup", "return"} => should_close
    /\ exit_code = "EXIT_SUCCESS" => CleanupRuns = 1

\* a turn of the loop polls; the loop is left only on a set flag, for cleanup()
C12_LoopStep ==
    pc = "mainLoop" =>
        /\ pc' = "mainLoop" => (~should_close /\ polls' = Min({polls + 1, MaxPolls}))
        /\ pc' # "mainLoop" => (should_close /\ pc' = "cleanup" /\ polls' = polls)

\* C12: after a successful setup every turn of the main loop polls the events
\* and the loop is left only when the close flag is seen set; once the user has
\* asked to close, cleanup() runs, exactly once and never before the loop is
\* left, and the process exits with EXIT_SUCCESS.
C12_MainLoopLiveness ==
    /\ []C12_CleanupAfterLoop
    /\ [][C12_LoopStep]_vars
    /\ should_close ~> (pc = "exit" /\ exit_code = "EXIT_SUCCESS" /\ CleanupRuns = 1)

\* C12 witness: the loop polled twice, the user closed the window, cleanup()
\* ran once and the process returned EXIT_SUCCESS
C12_Witness ==
    /\ pc = "exit"
    /\ exit_code = "EXIT_SUCCESS"
    /\ polls = MaxPolls
    /\ should_close
    /\ CleanupRuns = 1

\* ---------------------------------------------------------------- C13
\* The outcome of the negotiation: the setup step that failed ("none" when all
\* succeeded), the device selected, the queues fetched, and the extent, the
\* format and the create info (image count, format, extent, present mode) of
\* the swap chain.
NoOutcome ==
    [failed |-> "none", device |-> NullHandle, queues |-> <<>>,
     extent |-> <<>>, format |-> <<>>, info |-> <<>>]

\* the outcome this run has reached
ObservedOutcome ==
    [failed |-> IF Failed THEN started[Len(started)] ELSE "none",
     device |-> physical_device,
     queues |-> IF rev = "latest" THEN queue ELSE gfx_queue \o pres_queue,
     extent |-> swap_extent,
     format |-> swap_format,
     info |-> swap_info]

\* the setup is over: it failed, or the main loop is next
SetupEnded == pc \in {"catch", "aborted"} \/ (pc = "mainLoop" /\ polls = 0)

\* the outcomes of createSwapChain and createImageView on host h in a build with
\* ENABLE_VALIDATION = flag, from the outcome o of the steps before them
SwapOutcomes(flag, h, o) ==
    LET extent == pickSwapExtent(h.fb, h.caps)
        o1 == [o EXCEPT !.extent = <<extent>>]
        stopped == [o1 EXCEPT !.failed = "createSwapChain"]
        After(f) ==
            LET o2 == [o1 EXCEPT !.format = <<f>>]
                o3 == [o2 EXCEPT !.info =
                          <<[minImageCount |-> minSwapImgs(h.caps),
                             imageFormat |-> f.format,
                             imageColorSpace |-> f.colorSpace,
                             imageExtent |-> extent,
                             presentMode |-> pickSwapPresentMode(h.presentModes)]>>]
            IN  IF flag /\ ~HasFifo(h.presentModes)
                THEN [o2 EXCEPT !.failed = "createSwapChain"]
                ELSE IF h.driverFail = "swap_chain"
                THEN [o3 EXCEPT !.failed = "createSwapChain"]
                ELSE IF h.driverFail = "image_view"
                THEN [o3 EXCEPT !.failed = "createImageView"]
                ELSE o3
    IN  IF h.formats # <<>> THEN {After(pickSwapSurfaceFormat(h.formats))}
        ELSE IF flag THEN {stopped}
        ELSE {After(f) : f \in AnyFormat} \cup {stopped}

\* the outcomes of createLogicalDevice and of what follows it in revision r
DeviceOutcomes(flag, r, h, o) ==
    LET fams == h.devices[o.device].queue_families
        refused == h.driverFail = "logical_device"
    IN  IF r = "latest"
        THEN LET d == createLogicalDevice(fams, refused)
             IN  IF d.err # "none"
                 THEN {[o EXCEPT !.failed = "createLogicalDevice"]}
                 ELSE SwapOutcomes(flag, h, [o EXCEPT !.queues = d.queue])
        ELSE LET d == createLogicalDeviceFallback(fams, refused)
             IN  IF d.err # "none"
                 THEN {[o EXCEPT !.failed = "createLogicalDevice"]}
                 ELSE {[o EXCEPT !.queues = d.gfx_queue \o d.pres_queue]}
                      \cup
                      (IF d.pres_queue[1].family = d.queue_info[1].queueFamilyIndex
                       THEN {}
                       ELSE {[o EXCEPT !.failed = "createLogicalDevice",
                                       !.queues = d.gfx_queue]})

\* the outcomes of the whole setup of revision r on host h in a build with
\* ENABLE_VALIDATION = flag
NegotiationOutcomes(flag, r, h) ==
    LET required_layers == IF flag THEN validation_layers ELSE <<>>
        required_extensions ==
            h.glfwExtensions \o (IF flag THEN <<"VK_EXT_debug_utils">> ELSE <<>>)
        picked == pickPhysicalDevice(h.devices)
    IN  IF ~h.glfwInit \/ ~h.createWindow
        THEN {[NoOutcome EXCEPT !.failed = "initWindow"]}
        ELSE IF \/ FirstMissing(required_layers, h.layers, 1) # <<>>
                \/ FirstMissing(required_extensions, h.extensions, 1) # <<>>
                \/ h.driverFail = "instance"
        THEN {[NoOutcome EXCEPT !.failed = "createInstance"]}
        ELSE IF flag /\ h.driverFail = "debug_messenger"
        THEN {[NoOutcome EXCEPT !.failed = "setupDebugMessenger"]}
        ELSE IF h.surfaceResult # 0
        THEN {[NoOutcome EXCEPT !.failed = "createSurface"]}
        ELSE IF picked.err # "none"
        THEN {[NoOutcome EXCEPT !.failed = "pickPhysicalDevice"]}
        ELSE DeviceOutcomes(flag, r, h,
                            [NoOutcome EXCEPT !.device = picked.physical_device])

\* the outcome a run reaches is one of the outcomes computed for its build, its
\* revision and its host
OutcomeAgreesWithRun ==
    SetupEnded => ObservedOutcome \in NegotiationOutcomes(ENABLE_VALIDATION, rev, host)

ValidationLayerAbsent(h) ==
    \E k \in 1..Len(validation_layers) : validation_layers[k] \notin h.layers

\* C13: on every host the build with ENABLE_VALIDATION on and the build with it
\* off reach the same negotiation outcome (the same step fails or none, the same
\* device, queues, format, present mode, extent and image count), unless the
\* validation layer is not among the supported layers and the build with the
\* flag on fails for it in createInstance.
C13_FlagNonInterference ==
    SetupEnded =>
        \/ NegotiationOutcomes(TRUE, rev, host) = NegotiationOutcomes(FALSE, rev, host)
        \/ /\ ValidationLayerAbsent(host)
           /\ NegotiationOutcomes(TRUE, rev, host) =
                  {[NoOutcome EXCEPT !.failed = "createInstance"]}

\* what the flag does change besides the layer requirement: the requirement of
\* VK_EXT_debug_utils, the creation of the messenger, and the asserts of the
\* two selectors, which are compiled in together with the flag
FlagDependentStep(h) ==
    \/ ValidationLayerAbsent(h)
    \/ "VK_EXT_debug_utils" \notin h.extensions
    \/ h.driverFail = "debug_messenger"
    \/ h.formats = <<>>
    \/ ~HasFifo(h.presentModes)

C13_HoldsOfOtherHosts ==
    (SetupEnded /\ ~FlagDependentStep(host)) =>
        NegotiationOutcomes(TRUE, rev, host) = NegotiationOutcomes(FALSE, rev, host)

\* ---------------------------------------------------------------- C14
\* ---- hosts that differ in the supported layers and instance extensions and
\* in the order of the extensions GLFW requires; names that differ from a
\* required one in case only, or that continue one, are among them
LayerNames ==
    {"VK_LAYER_KHRONOS_validation", "VK_LAYER_KHRONOS_VALIDATION",
     "VK_LAYER_KHRONOS_validation2"}

ExtensionNames ==
    {"VK_KHR_surface", "VK_KHR_xcb_surface", "VK_EXT_debug_utils",
     "vk_khr_surface", "VK_KHR_xcb_surface2", "VK_EXT_debug_util"}

RequiredByGlfw ==
    {<<>>, <<"VK_KHR_surface", "VK_KHR_xcb_surface">>,
     <<"VK_KHR_xcb_surface", "VK_KHR_surface">>}

InstanceHosts ==
    {[BaseHost EXCEPT !.layers = ls, !.extensions = es, !.glfwExtensions = req] :
        ls \in SUBSET LayerNames, es \in SUBSET ExtensionNames,
        req \in RequiredByGlfw}

InitInstance == InitOn(InstanceHosts, {BaseHost})

SpecInstance == InitInstance /\ [][Next]_vars

InstanceRan == Len(started) >= StepNo("createInstance")

RequiredLayers == IF ENABLE_VALIDATION THEN validation_layers ELSE <<>>

RequiredExtensions ==
    host.glfwExtensions \o
    (IF ENABLE_VALIDATION THEN <<"VK_EXT_debug_utils">> ELSE <<>>)

\* the places in a required list whose name has no equal among the supported
Unmet(required, supported) == {k \in 1..Len(required) : required[k] \notin supported}

LayerCheckMessages ==
    {"Required layer not supported: " \o n : n \in LayerNames}

ExtensionCheckMessages ==
    {"Required extension not supported: " \o n : n \in ExtensionNames}

\* C14: once createInstance has run: a check has failed exactly when some
\* required layer or extension name has no identical name (same bytes, same
\* case) in the supported list; the message then names the first unmet name in
\* the order of the required list, layers before extensions; and no instance
\* was created.
C14_FirstUnmetNameReported ==
    InstanceRan =>
        LET noLayer == Unmet(RequiredLayers, host.layers)
            noExt == Unmet(RequiredExtensions, host.extensions)
        IN  /\ (err \in LayerCheckMessages \cup ExtensionCheckMessages)
                   <=> (noLayer # {} \/ noExt # {})
            /\ noLayer # {} =>
                   err = "Required layer not supported: "
                         \o RequiredLayers[Min(noLayer)]
            /\ (noLayer = {} /\ noExt # {}) =>
                   err = "Required extension not supported: "
                         \o RequiredExtensions[Min(noExt)]
            /\ (noLayer # {} \/ noExt # {}) =>
                   /\ instance = NullHandle
                   /\ "instance" \notin SeqRange(acquired)
                   /\ started = SubSeq(SetupOrder, 1, StepNo("createInstance"))

\* C14 witness: three required extensions, all unmet although a name that
\* differs in case only and names that continue or cut a required one are
\* supported; the first of the list is the one reported
C14_Witness ==
    /\ InstanceRan
    /\ RequiredExtensions =
           <<"VK_KHR_xcb_surface", "VK_KHR_surface", "VK_EXT_debug_utils">>
    /\ host.extensions = {"vk_khr_surface", "VK_KHR_xcb_surface2", "VK_EXT_debug_util"}
    /\ host.layers = {"VK_LAYER_KHRONOS_validation", "VK_LAYER_KHRONOS_VALIDATION"}
    /\ err = "Required extension not supported: VK_KHR_xcb_surface"
    /\ pc = "exit"

\* ---------------------------------------------------------------- C15
\* device d meets every hard requirement of pickPhysicalDevice
Eligible(d) == ~MissingRequirement(d)

\* a and b are the same device but for maxImageDimension2D
DifferInDimensionOnly(a, b) ==
    /\ a.maxImageDimension2D # b.maxImageDimension2D
    /\ [a EXCEPT !.maxImageDimension2D = b.maxImageDimension2D] = b

\* C15: of two enumerated discrete GPUs that meet every hard requirement and
\* differ only in maxImageDimension2D, the one with the larger dimension has the
\* strictly higher score, the score being 1000 + maxImageDimension2D in
\* uint32_t.
C15_LargerDimensionRanksHigher ==
    Picked =>
        \A i, j \in 1..Len(host.devices) :
            LET a == host.devices[i]
                b == host.devices[j]
            IN  (/\ Eligible(a) /\ Eligible(b)
                 /\ a.deviceType = "eDiscreteGpu" /\ b.deviceType = "eDiscreteGpu"
                 /\ DifferInDimensionOnly(a, b)
                 /\ U32Lt(a.maxImageDimension2D, b.maxImageDimension2D))
                => U32Lt(scoreDevice(a), scoreDevice(b))

\* the sum 1000 + maxImageDimension2D of device d does not pass 2^32 - 1
NoWrap(d) ==
    d.deviceType = "eDiscreteGpu" =>
        U32Le(d.maxImageDimension2D, U32Sub(U32Max, U32Of(1000)))

C15_HoldsWithoutWrap ==
    Picked =>
        \A i, j \in 1..Len(host.devices) :
            LET a == host.devices[i]
                b == host.devices[j]
            IN  (/\ Eligible(a) /\ Eligible(b)
                 /\ a.deviceType = "eDiscreteGpu" /\ b.deviceType = "eDiscreteGpu"
                 /\ DifferInDimensionOnly(a, b)
                 /\ NoWrap(a) /\ NoWrap(b)
                 /\ U32Lt(a.maxImageDimension2D, b.maxImageDimension2D))
                => U32Lt(scoreDevice(a), scoreDevice(b))

\* two discrete GPUs whose sums do not wrap, equal but for the dimension, were
\* scored
C15_PairScored ==
    /\ Picked
    /\ \E i, j \in 1..Len(host.devices) :
           /\ host.devices[i].deviceType = "eDiscreteGpu"
           /\ DifferInDimensionOnly(host.devices[i], host.devices[j])
           /\ Eligible(host.devices[i]) /\ Eligible(host.devices[j])
           /\ NoWrap(host.devices[i]) /\ NoWrap(host.devices[j])

\* ---------------------------------------------------------------- C16
\* C16: createSwapChain calls pickSwapSurfaceFormat only with a non-empty format
\* list and pickSwapPresentMode only with a non-empty list of present modes
\* that holds fifo, so that no assert fails; on a host that reports an empty
\* format list or an empty present mode list the setup fails with an error
\* before createSwapChain calls a selector.
C16_SelectorPreconditions ==
    /\ SwapChainRan => host.formats # <<>>
    /\ (SwapChainRan /\ swap_format # <<>>) =>
           (host.presentModes # <<>> /\ HasFifo(host.presentModes))
    /\ pc # "aborted"
    /\ (host.formats = <<>> \/ host.presentModes = <<>>) =>
           /\ pc \notin {"mainLoop", "cleanup", "return"}
           /\ exit_code # "EXIT_SUCCESS"

\* ---------------------------------------------------------------- C17
\* the queue handles the renderer holds
QueueHandles == SeqRange(queue) \cup SeqRange(gfx_queue) \cup SeqRange(pres_queue)

\* handle h is a queue that the create info handed to the device asks for
Requested(h) ==
    \E k \in 1..Len(queue_info) :
        /\ queue_info[k].queueFamilyIndex = h.family
        /\ h.slot < queue_info[k].queueCount

\* C17: in both revisions of createLogicalDevice every queue handle fetched from
\* the logical device (queue, gfx_queue, pres_queue) is of a family and a slot
\* that the queue create info of the device lists, also when the graphics and
\* the present family differ, and no fetch faults.
C17_QueueHandlesRequested ==
    /\ \A h \in QueueHandles : Requested(h)
    /\ (rev = "fallback" /\ LogicalDeviceRan) => pc # "aborted"

C17_HoldsOfLatestRevision ==
    (rev = "latest" /\ LogicalDeviceRan) =>
        /\ \A h \in QueueHandles : Requested(h)
        /\ (err = "none" /\ pc # "exit") => QueueHandles # {}

\* ---------------------------------------------------------------- C18
\* device d has a family with the graphics bit that can present to the surface
CanPresent(d) == CombinedFamilies(d.queue_families) # {}

\* C18: when some enumerated device has a non-zero score and a family that
\* supports graphics and present, the setup does not fail at the queue family
\* selection of createLogicalDevice: no device that cannot present is preferred
\* to a qualifying one that can.
C18_SelectionAllowsPresentation ==
    (/\ Len(started) >= StepNo("createLogicalDevice")
     /\ \E i \in 1..Len(host.devices) :
            /\ scoreDevice(host.devices[i]) # U32Zero
            /\ CanPresent(host.devices[i]))
    => err \notin QueueSelectionErrors

\* ---------------------------------------------------------------- C19
\* device number i of the enumeration is an entry of the multimap
Inserted(i) == \E k \in 1..Len(scored_devices) : scored_devices[k].dev = i

\* C19: every enumerated device that meets all hard requirements has a score
\* greater than 0 and is inserted in scored_devices, whatever its type and its
\* maxImageDimension2D.
C19_EligibleDeviceKept ==
    Picked =>
        \A i \in 1..Len(host.devices) :
            Eligible(host.devices[i]) =>
                /\ U32Lt(U32Zero, scoreDevice(host.devices[i]))
                /\ Inserted(i)

\* the sum of the score of d is not a multiple of 2^32
NonZeroSum(d) ==
    /\ d.deviceType = "eDiscreteGpu" =>
           d.maxImageDimension2D # U32Sub(U32Zero, U32Of(1000))
    /\ d.deviceType # "eDiscreteGpu" => d.maxImageDimension2D # U32Zero

C19_HoldsOfNonZeroSums ==
    Picked =>
        \A i \in 1..Len(host.devices) :
            (Eligible(host.devices[i]) /\ NonZeroSum(host.devices[i])) =>
                /\ U32Lt(U32Zero, scoreDevice(host.devices[i]))
                /\ Inserted(i)

\* ---------------------------------------------------------------- C20
\* the family lists of the one device of the host, whether or not the device
\* is selected
HostFamilies == host.devices[1].queue_families

\* what this run of createLogicalDevice did is what the function of its
\* revision gives
RunIsOfRevision ==
    LogicalDeviceRan =>
        LET refused == host.driverFail = "logical_device"
            L == createLogicalDevice(SelectedFamilies, refused)
            F == createLogicalDeviceFallback(SelectedFamilies, refused)
        IN  /\ rev = "latest" => (queue = L.queue /\ queue_info = L.queue_info)
            /\ rev = "fallback" =>
                   /\ gfx_queue = F.gfx_queue /\ queue_info = F.queue_info
                   /\ pres_queue = F.pres_queue \/ pc = "aborted"

====
